---- MODULE Spec2Model ----
(***************************************************************************)
(* FwupdDevice (libfwupd/fwupd-device.c): the device record, its field     *)
(* accessors, the a{sv} serializer, the deserializer with its three        *)
(* envelope shapes, and the text formatter.                                *)
(*                                                                         *)
(* A C string is a sequence of one-character strings (<<"a", ",", "b">> is *)
(* "a,b", <<>> is ""); the NULL pointer is the one-element sequence NULL,  *)
(* whose element is no character of any string of the model.  A guint64 /  *)
(* guint32 is a natural number.  The struct members appstream_id and       *)
(* homepage have no accessor and no use in the file and are left out.      *)
(***************************************************************************)
EXTENDS Integers, Sequences, FiniteSets, TLC

VARIABLES dev, nops, guidLog, csumLog, data, out

vars == <<dev, nops, guidLog, csumLog, data, out>>

(* ------------------------------ bounds -------------------------------- *)

\* number of mutating calls made on the device in one behaviour
MaxOps == 2
\* number of key-value pairs of a mapping received from the wire
MaxPairs == 2

(* ------------------------------ strings ------------------------------- *)

NULL == <<"NULL">>

\* g_string_append_printf (str, "%s,", s) for each element, in list order
RECURSIVE AppendEach(_, _)
AppendEach(str, list) ==
    IF list = <<>> THEN str
    ELSE AppendEach(str \o Head(list) \o <<",">>, Tail(list))

\* g_string_truncate (str, str->len - 1), guarded by str->len > 0
TruncateLast(str) ==
    IF Len(str) > 0 THEN SubSeq(str, 1, Len(str) - 1) ELSE str

\* the GString built for a list-valued field
JoinList(list) == TruncateLast(AppendEach(<<>>, list))

\* g_strsplit (s, ",", -1) on a non-empty string: every token, empty ones too
RECURSIVE SplitTokens(_, _)
SplitTokens(s, cur) ==
    IF s = <<>> THEN <<cur>>
    ELSE IF Head(s) = "," THEN <<cur>> \o SplitTokens(Tail(s), <<>>)
    ELSE SplitTokens(Tail(s), Append(cur, Head(s)))

\* g_strsplit (s, ",", -1): the empty string splits to the empty vector
g_strsplit(s) == IF s = <<>> THEN <<>> ELSE SplitTokens(s, <<>>)

(* --------------------------- key constants ---------------------------- *)

FWUPD_RESULT_KEY_DEVICE_ID == "DeviceId"
FWUPD_RESULT_KEY_GUID == "Guid"
FWUPD_RESULT_KEY_DEVICE_NAME == "Name"
FWUPD_RESULT_KEY_DEVICE_VENDOR == "Vendor"
FWUPD_RESULT_KEY_DEVICE_FLAGS == "Flags"
FWUPD_RESULT_KEY_DEVICE_CREATED == "Created"
FWUPD_RESULT_KEY_DEVICE_MODIFIED == "Modified"
FWUPD_RESULT_KEY_DEVICE_DESCRIPTION == "Description"
FWUPD_RESULT_KEY_DEVICE_CHECKSUM == "Checksum"
FWUPD_RESULT_KEY_DEVICE_PLUGIN == "Plugin"
FWUPD_RESULT_KEY_DEVICE_VERSION == "Version"
FWUPD_RESULT_KEY_DEVICE_VERSION_LOWEST == "VersionLowest"
FWUPD_RESULT_KEY_DEVICE_VERSION_BOOTLOADER == "VersionBootloader"
FWUPD_RESULT_KEY_DEVICE_FLASHES_LEFT == "FlashesLeft"

\* the keys fwupd_device_from_key_value dispatches on
StringKeys ==
    {FWUPD_RESULT_KEY_DEVICE_NAME, FWUPD_RESULT_KEY_DEVICE_VENDOR,
     FWUPD_RESULT_KEY_DEVICE_DESCRIPTION, FWUPD_RESULT_KEY_DEVICE_PLUGIN,
     FWUPD_RESULT_KEY_DEVICE_VERSION, FWUPD_RESULT_KEY_DEVICE_VERSION_LOWEST,
     FWUPD_RESULT_KEY_DEVICE_VERSION_BOOTLOADER}
ListKeys == {FWUPD_RESULT_KEY_GUID, FWUPD_RESULT_KEY_DEVICE_CHECKSUM}
Uint64Keys ==
    {FWUPD_RESULT_KEY_DEVICE_FLAGS, FWUPD_RESULT_KEY_DEVICE_CREATED,
     FWUPD_RESULT_KEY_DEVICE_MODIFIED}
Uint32Keys == {FWUPD_RESULT_KEY_DEVICE_FLASHES_LEFT}
RecognizedKeys == StringKeys \cup ListKeys \cup Uint64Keys \cup Uint32Keys

\* keys of other producers: fwupd_device_from_key_value has no branch for them
UnknownKeys == {FWUPD_RESULT_KEY_DEVICE_ID, "TrustFlags"}

(* ----------------------------- variants ------------------------------- *)

g_variant_new_string(s) == [t |-> "s", v |-> s]
g_variant_new_uint64(n) == [t |-> "t", v |-> n]
g_variant_new_uint32(n) == [t |-> "u", v |-> n]

\* the getters are only applied to a variant of the matching type
g_variant_get_string(value) == value.v
g_variant_get_uint64(value) == value.v
g_variant_get_uint32(value) == value.v

\* g_variant_builder_add (builder, "{sv}", key, value)
g_variant_builder_add(builder, key, value) ==
    Append(builder, [key |-> key, value |-> value])

(* ------------------------------ the record ---------------------------- *)

\* fwupd_device_new (): every pointer NULL, every number 0, both arrays empty
fwupd_device_new ==
    [id |-> NULL, created |-> 0, modified |-> 0, flags |-> 0,
     guids |-> <<>>, name |-> NULL, summary |-> NULL, description |-> NULL,
     vendor |-> NULL, provider |-> NULL, version |-> NULL,
     version_lowest |-> NULL, version_bootloader |-> NULL,
     checksums |-> <<>>, flashes_left |-> 0]

\* the NULL FwupdDevice pointer
NoDevice == [null |-> TRUE]

fwupd_device_add_checksum_nodedup(d, checksum) ==
    [d EXCEPT !.checksums = Append(@, checksum)]

fwupd_device_add_checksum(d, checksum) ==
    IF \E i \in 1..Len(d.checksums) : d.checksums[i] = checksum
    THEN d
    ELSE [d EXCEPT !.checksums = Append(@, checksum)]

fwupd_device_set_summary(d, summary) == [d EXCEPT !.summary = summary]

fwupd_device_set_id(d, id) == [d EXCEPT !.id = id]

fwupd_device_has_guid(d, guid) ==
    \E i \in 1..Len(d.guids) : d.guids[i] = guid

\* the adder putting a new GUID in front of the list
fwupd_device_add_guid_front(d, guid) ==
    IF fwupd_device_has_guid(d, guid) THEN d
    ELSE [d EXCEPT !.guids = <<guid>> \o @]

fwupd_device_add_guid(d, guid) ==
    IF fwupd_device_has_guid(d, guid) THEN d
    ELSE [d EXCEPT !.guids = Append(@, guid)]

fwupd_device_get_guid_default(d) ==
    IF Len(d.guids) = 0 THEN NULL ELSE d.guids[1]

fwupd_device_set_name(d, name) == [d EXCEPT !.name = name]

fwupd_device_set_vendor(d, vendor) == [d EXCEPT !.vendor = vendor]

fwupd_device_set_description(d, description) ==
    [d EXCEPT !.description = description]

fwupd_device_set_version(d, version) == [d EXCEPT !.version = version]

fwupd_device_set_version_lowest(d, version_lowest) ==
    [d EXCEPT !.version_lowest = version_lowest]

fwupd_device_set_version_bootloader(d, version_bootloader) ==
    [d EXCEPT !.version_bootloader = version_bootloader]

fwupd_device_set_flashes_left(d, flashes_left) ==
    [d EXCEPT !.flashes_left = flashes_left]

fwupd_device_set_provider(d, provider) == [d EXCEPT !.provider = provider]

fwupd_device_set_flags(d, flags) == [d EXCEPT !.flags = flags]

fwupd_device_set_created(d, created) == [d EXCEPT !.created = created]

fwupd_device_set_modified(d, modified) == [d EXCEPT !.modified = modified]

(* ------------------------------- flags -------------------------------- *)

\* a | b on unsigned integers
RECURSIVE BitOr(_, _)
BitOr(a, b) ==
    IF a = 0 THEN b
    ELSE IF b = 0 THEN a
    ELSE (IF a % 2 = 1 \/ b % 2 = 1 THEN 1 ELSE 0)
         + 2 * BitOr(a \div 2, b \div 2)

\* a & b on unsigned integers
RECURSIVE BitAnd(_, _)
BitAnd(a, b) ==
    IF a = 0 \/ b = 0 THEN 0
    ELSE (IF a % 2 = 1 /\ b % 2 = 1 THEN 1 ELSE 0)
         + 2 * BitAnd(a \div 2, b \div 2)

\* a & ~b on unsigned integers of one width
RECURSIVE BitAndNot(_, _)
BitAndNot(a, b) ==
    IF a = 0 THEN 0
    ELSE (IF a % 2 = 1 /\ b % 2 = 0 THEN 1 ELSE 0)
         + 2 * BitAndNot(a \div 2, b \div 2)

fwupd_device_add_flag(d, flag) == [d EXCEPT !.flags = BitOr(@, flag)]

\* the remover keeping the named bit instead of clearing it
fwupd_device_remove_flag_mask(d, flag) == [d EXCEPT !.flags = BitAnd(@, flag)]

fwupd_device_remove_flag(d, flag) == [d EXCEPT !.flags = BitAndNot(@, flag)]

fwupd_device_has_flag(d, flag) == BitAnd(d.flags, flag) > 0

(* ----------------------------- serializer ----------------------------- *)

\* if (array->len > 0) { join the elements; g_variant_builder_add (string) }
EmitList_keep_comma(builder, key, list) ==
    IF Len(list) > 0
    THEN g_variant_builder_add(builder, key,
             g_variant_new_string(AppendEach(<<>>, list)))
    ELSE builder

EmitList(builder, key, list) ==
    IF Len(list) > 0
    THEN g_variant_builder_add(builder, key,
             g_variant_new_string(JoinList(list)))
    ELSE builder

\* if (priv->field != NULL) g_variant_builder_add (..., g_variant_new_string)
EmitString_skip_empty(builder, key, s) ==
    IF s # NULL /\ s # <<>>
    THEN g_variant_builder_add(builder, key, g_variant_new_string(s))
    ELSE builder

EmitString(builder, key, s) ==
    IF s # NULL
    THEN g_variant_builder_add(builder, key, g_variant_new_string(s))
    ELSE builder

\* if (priv->field > 0) g_variant_builder_add (..., g_variant_new_uint64)
EmitUint64_always(builder, key, n) ==
    g_variant_builder_add(builder, key, g_variant_new_uint64(n))

EmitUint64(builder, key, n) ==
    IF n > 0
    THEN g_variant_builder_add(builder, key, g_variant_new_uint64(n))
    ELSE builder

\* if (priv->flashes_left > 0) g_variant_builder_add (..., g_variant_new_uint32)
EmitUint32(builder, key, n) ==
    IF n > 0
    THEN g_variant_builder_add(builder, key, g_variant_new_uint32(n))
    ELSE builder

\* the if-blocks of the serializer, in source order
fwupd_device_to_variant_builder(d, builder) ==
    LET b1 == EmitList(builder, FWUPD_RESULT_KEY_GUID, d.guids)
        b2 == EmitString(b1, FWUPD_RESULT_KEY_DEVICE_NAME, d.name)
        b3 == EmitString(b2, FWUPD_RESULT_KEY_DEVICE_VENDOR, d.vendor)
        b4 == EmitUint64(b3, FWUPD_RESULT_KEY_DEVICE_FLAGS, d.flags)
        b5 == EmitUint64(b4, FWUPD_RESULT_KEY_DEVICE_CREATED, d.created)
        b6 == EmitUint64(b5, FWUPD_RESULT_KEY_DEVICE_MODIFIED, d.modified)
        b7 == EmitString(b6, FWUPD_RESULT_KEY_DEVICE_DESCRIPTION,
                         d.description)
        b8 == EmitList(b7, FWUPD_RESULT_KEY_DEVICE_CHECKSUM, d.checksums)
        b9 == EmitString(b8, FWUPD_RESULT_KEY_DEVICE_PLUGIN, d.provider)
        b10 == EmitString(b9, FWUPD_RESULT_KEY_DEVICE_VERSION, d.version)
        b11 == EmitString(b10, FWUPD_RESULT_KEY_DEVICE_VERSION_LOWEST,
                          d.version_lowest)
        b12 == EmitString(b11, FWUPD_RESULT_KEY_DEVICE_VERSION_BOOTLOADER,
                          d.version_bootloader)
        b13 == EmitUint32(b12, FWUPD_RESULT_KEY_DEVICE_FLASHES_LEFT,
                          d.flashes_left)
    IN  b13

\* a GVariant: its type string, the outer key of the id-keyed shape (NULL in
\* the other shapes) and the entries of its a{sv} mapping, in order
GVariant(type_string, id, kvs) ==
    [type |-> type_string, id |-> id, kvs |-> kvs]

\* the NULL GVariant pointer
NoData == [null |-> TRUE]

\* the call did not return: g_error ended the process
Aborted == [aborted |-> TRUE]

\* g_variant_new (format_string, &builder) on the builder that
\* g_variant_builder_init (&builder, G_VARIANT_TYPE_ARRAY) made: without a
\* child g_variant_builder_end cannot tell the element type of the array and
\* returns NULL, on which g_variant_new calls g_error
g_variant_new(format_string, builder) ==
    IF builder = <<>> THEN Aborted
    ELSE GVariant(format_string, NULL, builder)

fwupd_device_to_data(d, type_string) ==
    LET builder == fwupd_device_to_variant_builder(d, <<>>)
    IN  IF type_string = "a{sv}" THEN g_variant_new("a{sv}", builder)
        ELSE IF type_string = "(a{sv})" THEN g_variant_new("(a{sv})", builder)
        ELSE NoData

(* ---------------------------- deserializer ---------------------------- *)

\* for (i = 0; split[i] != NULL; i++) fwupd_device_add_guid (device, split[i])
RECURSIVE AddGuids(_, _)
AddGuids(d, split) ==
    IF split = <<>> THEN d
    ELSE AddGuids(fwupd_device_add_guid(d, Head(split)), Tail(split))

\* for (i = 0; split[i] != NULL; i++) fwupd_device_add_checksum (device, split[i])
RECURSIVE AddChecksums(_, _)
AddChecksums(d, split) ==
    IF split = <<>> THEN d
    ELSE AddChecksums(fwupd_device_add_checksum(d, Head(split)), Tail(split))

fwupd_device_from_key_value(d, key, value) ==
    IF key = FWUPD_RESULT_KEY_DEVICE_FLAGS
    THEN fwupd_device_set_flags(d, g_variant_get_uint64(value))
    ELSE IF key = FWUPD_RESULT_KEY_DEVICE_CREATED
    THEN fwupd_device_set_created(d, g_variant_get_uint64(value))
    ELSE IF key = FWUPD_RESULT_KEY_DEVICE_MODIFIED
    THEN fwupd_device_set_modified(d, g_variant_get_uint64(value))
    ELSE IF key = FWUPD_RESULT_KEY_GUID
    THEN AddGuids(d, g_strsplit(g_variant_get_string(value)))
    ELSE IF key = FWUPD_RESULT_KEY_DEVICE_NAME
    THEN fwupd_device_set_name(d, g_variant_get_string(value))
    ELSE IF key = FWUPD_RESULT_KEY_DEVICE_VENDOR
    THEN fwupd_device_set_vendor(d, g_variant_get_string(value))
    ELSE IF key = FWUPD_RESULT_KEY_DEVICE_DESCRIPTION
    THEN fwupd_device_set_description(d, g_variant_get_string(value))
    ELSE IF key = FWUPD_RESULT_KEY_DEVICE_CHECKSUM
    THEN AddChecksums(d, g_strsplit(g_variant_get_string(value)))
    ELSE IF key = FWUPD_RESULT_KEY_DEVICE_PLUGIN
    THEN fwupd_device_set_provider(d, g_variant_get_string(value))
    ELSE IF key = FWUPD_RESULT_KEY_DEVICE_VERSION
    THEN fwupd_device_set_version(d, g_variant_get_string(value))
    ELSE IF key = FWUPD_RESULT_KEY_DEVICE_VERSION_LOWEST
    THEN fwupd_device_set_version_lowest(d, g_variant_get_string(value))
    ELSE IF key = FWUPD_RESULT_KEY_DEVICE_VERSION_BOOTLOADER
    THEN fwupd_device_set_version_bootloader(d, g_variant_get_string(value))
    ELSE IF key = FWUPD_RESULT_KEY_DEVICE_FLASHES_LEFT
    THEN fwupd_device_set_flashes_left(d, g_variant_get_uint32(value))
    ELSE d

\* the loop leaving at the first key fwupd_device_from_key_value has no
\* branch for
RECURSIVE fwupd_device_set_from_variant_iter_stop(_, _)
fwupd_device_set_from_variant_iter_stop(d, iter) ==
    IF iter = <<>> THEN d
    ELSE IF Head(iter).key \notin RecognizedKeys THEN d
    ELSE fwupd_device_set_from_variant_iter_stop(
             fwupd_device_from_key_value(d, Head(iter).key, Head(iter).value),
             Tail(iter))

\* while (g_variant_iter_next (iter, "{&sv}", &key, &value)) ...
RECURSIVE fwupd_device_set_from_variant_iter(_, _)
fwupd_device_set_from_variant_iter(d, iter) ==
    IF iter = <<>> THEN d
    ELSE fwupd_device_set_from_variant_iter(
             fwupd_device_from_key_value(d, Head(iter).key, Head(iter).value),
             Tail(iter))

\* the "(a{sv})" branch without its fwupd_device_set_from_variant_iter call
fwupd_device_new_from_data_tuple_skip(gv) ==
    IF gv.type = "(a{sv})"
    THEN fwupd_device_new
    ELSE IF gv.type = "a{sv}"
    THEN fwupd_device_set_from_variant_iter(fwupd_device_new, gv.kvs)
    ELSE IF gv.type = "{sa{sv}}"
    THEN fwupd_device_set_from_variant_iter(
             fwupd_device_set_id(fwupd_device_new, gv.id), gv.kvs)
    ELSE NoDevice

\* the "{sa{sv}}" branch without its fwupd_device_set_id call
fwupd_device_new_from_data_noid(gv) ==
    IF gv.type = "(a{sv})"
    THEN fwupd_device_set_from_variant_iter(fwupd_device_new, gv.kvs)
    ELSE IF gv.type = "a{sv}"
    THEN fwupd_device_set_from_variant_iter(fwupd_device_new, gv.kvs)
    ELSE IF gv.type = "{sa{sv}}"
    THEN fwupd_device_set_from_variant_iter(fwupd_device_new, gv.kvs)
    ELSE NoDevice

\* dev = fwupd_device_new () hoisted above the type test
fwupd_device_new_from_data_always(gv) ==
    IF gv.type = "(a{sv})"
    THEN fwupd_device_set_from_variant_iter(fwupd_device_new, gv.kvs)
    ELSE IF gv.type = "a{sv}"
    THEN fwupd_device_set_from_variant_iter(fwupd_device_new, gv.kvs)
    ELSE IF gv.type = "{sa{sv}}"
    THEN fwupd_device_set_from_variant_iter(
             fwupd_device_set_id(fwupd_device_new, gv.id), gv.kvs)
    ELSE fwupd_device_new

fwupd_device_new_from_data(gv) ==
    IF gv.type = "(a{sv})"
    THEN fwupd_device_set_from_variant_iter(fwupd_device_new, gv.kvs)
    ELSE IF gv.type = "a{sv}"
    THEN fwupd_device_set_from_variant_iter(fwupd_device_new, gv.kvs)
    ELSE IF gv.type = "{sa{sv}}"
    THEN fwupd_device_set_from_variant_iter(
             fwupd_device_set_id(fwupd_device_new, gv.id), gv.kvs)
    ELSE NoDevice

(* ------------------------------ formatter ----------------------------- *)

\* fwupd_device_flag_to_string (fwupd-enums.c): the name of one flag value
fwupd_device_flag_to_string(flag) == <<"flag", ToString(flag)>>

\* fwupd_checksum_format_for_display (fwupd-common.c): the labelled checksum
fwupd_checksum_format_for_display(checksum) == <<"display">> \o checksum

\* the line writer dropping an empty value as well as a NULL one
fwupd_pad_kv_str_skip_empty(str, key, value) ==
    IF value = NULL \/ value = <<>> THEN str
    ELSE Append(str, [key |-> key,
                      pad |-> IF Len(key) < 20 THEN 20 - Len(key) ELSE 0,
                      value |-> value])

\* one line "  key: <padding>value\n" of the text; every caller passes a key
\* constant, so key == NULL never holds and only value decides
fwupd_pad_kv_str(str, key, value) ==
    IF value = NULL THEN str
    ELSE Append(str, [key |-> key,
                      pad |-> IF Len(key) < 20 THEN 20 - Len(key) ELSE 0,
                      value |-> value])

\* g_date_time_format (g_date_time_new_from_unix_utc (value), "%F"): the
\* calendar day the second falls in
fwupd_pad_kv_unx(str, key, value) ==
    IF value = 0 THEN str
    ELSE fwupd_pad_kv_str(str, key, <<"day", ToString(value \div 86400)>>)

\* for (i = ...; i < 64; i++) append "name|" when device_flags has bit i;
\* shifted is device_flags >> i, so shifted % 2 is the tested bit
RECURSIVE FlagNames(_, _, _)
FlagNames(tmp, shifted, i) ==
    IF i >= 64 THEN tmp
    ELSE IF shifted % 2 = 0
    THEN FlagNames(tmp, shifted \div 2, i + 1)
    ELSE FlagNames(tmp \o fwupd_device_flag_to_string(2 ^ i) \o <<"|">>,
                   shifted \div 2, i + 1)

\* the formatter treating a zero bitmask as unset
fwupd_pad_kv_dfl_skip_zero(str, key, device_flags) ==
    LET tmp == FlagNames(<<>>, device_flags, 0)
    IN  IF Len(tmp) = 0 THEN str
        ELSE fwupd_pad_kv_str(str, key, SubSeq(tmp, 1, Len(tmp) - 1))

\* the formatter leaving the separator after the last name
fwupd_pad_kv_dfl_keep_bar(str, key, device_flags) ==
    LET tmp == FlagNames(<<>>, device_flags, 0)
    IN  fwupd_pad_kv_str(str, key,
            IF Len(tmp) = 0
            THEN tmp \o fwupd_device_flag_to_string(0)
            ELSE tmp)

fwupd_pad_kv_dfl(str, key, device_flags) ==
    LET tmp == FlagNames(<<>>, device_flags, 0)
    IN  fwupd_pad_kv_str(str, key,
            IF Len(tmp) = 0
            THEN tmp \o fwupd_device_flag_to_string(0)
            ELSE SubSeq(tmp, 1, Len(tmp) - 1))

\* the integer line without its "ignore" test
fwupd_pad_kv_int_nozero(str, key, value) ==
    fwupd_pad_kv_str(str, key, <<ToString(value)>>)

\* g_strdup_printf ("%u", value)
fwupd_pad_kv_int(str, key, value) ==
    IF value = 0 THEN str
    ELSE fwupd_pad_kv_str(str, key, <<ToString(value)>>)

\* one line per GUID, in list order
RECURSIVE PadGuids(_, _)
PadGuids(str, guids) ==
    IF guids = <<>> THEN str
    ELSE PadGuids(fwupd_pad_kv_str(str, FWUPD_RESULT_KEY_GUID, Head(guids)),
                  Tail(guids))

\* one line per checksum, in list order, each formatted for display
RECURSIVE PadChecksums(_, _)
PadChecksums(str, checksums) ==
    IF checksums = <<>> THEN str
    ELSE PadChecksums(
             fwupd_pad_kv_str(str, FWUPD_RESULT_KEY_DEVICE_CHECKSUM,
                 fwupd_checksum_format_for_display(Head(checksums))),
             Tail(checksums))

fwupd_device_to_string(d) ==
    LET s1 == PadGuids(<<>>, d.guids)
        s2 == fwupd_pad_kv_str(s1, FWUPD_RESULT_KEY_DEVICE_ID, d.id)
        s3 == fwupd_pad_kv_str(s2, FWUPD_RESULT_KEY_DEVICE_DESCRIPTION,
                               d.description)
        s4 == fwupd_pad_kv_str(s3, FWUPD_RESULT_KEY_DEVICE_PLUGIN, d.provider)
        s5 == fwupd_pad_kv_dfl(s4, FWUPD_RESULT_KEY_DEVICE_FLAGS, d.flags)
        s6 == PadChecksums(s5, d.checksums)
        s7 == fwupd_pad_kv_str(s6, FWUPD_RESULT_KEY_DEVICE_VENDOR, d.vendor)
        s8 == fwupd_pad_kv_str(s7, FWUPD_RESULT_KEY_DEVICE_VERSION, d.version)
        s9 == fwupd_pad_kv_str(s8, FWUPD_RESULT_KEY_DEVICE_VERSION_LOWEST,
                               d.version_lowest)
        s10 == fwupd_pad_kv_str(s9, FWUPD_RESULT_KEY_DEVICE_VERSION_BOOTLOADER,
                                d.version_bootloader)
        s11 == IF d.flashes_left < 2
               THEN fwupd_pad_kv_int(s10, FWUPD_RESULT_KEY_DEVICE_FLASHES_LEFT,
                                     d.flashes_left)
               ELSE s10
        s12 == fwupd_pad_kv_unx(s11, FWUPD_RESULT_KEY_DEVICE_CREATED, d.created)
        s13 == fwupd_pad_kv_unx(s12, FWUPD_RESULT_KEY_DEVICE_MODIFIED,
                                d.modified)
    IN  s13

(* ------------------------------- inputs ------------------------------- *)

\* arguments of the string setters
StrVals == {NULL, <<>>, <<"a">>}

\* arguments of fwupd_device_add_guid and fwupd_device_add_checksum
GuidVals == {<<>>, <<"a">>, <<"b">>, <<"a", ",", "b">>}
ChecksumVals == {<<>>, <<"a">>, <<"b">>}

\* arguments of the numeric setters and of the flag operations
FlagsVals == {0, 1, 8, 9}
FlagVals == {1, 2, 8}
TimeVals == {0, 1, 86400}
FlashesVals == {0, 1, 2, 5}

\* type strings handed to fwupd_device_to_data
TypeStrings == {"a{sv}", "(a{sv})", "{sa{sv}}"}

\* comma-joined list values as they arrive from the wire
ListWireVals ==
    {<<>>, <<"a">>, <<"a", ",", "b">>, <<"b", ",", "a">>, <<"a", ",", "a">>,
     <<"a", ",">>}

\* one {sv} entry
Pair(key, value) == [key |-> key, value |-> value]

\* the well-typed entries a mapping may hold
Pairs ==
    {Pair(k, g_variant_new_string(v)) : k \in StringKeys, v \in {<<>>, <<"a">>}}
    \cup {Pair(k, g_variant_new_string(v)) : k \in ListKeys, v \in ListWireVals}
    \cup {Pair(k, g_variant_new_uint64(v)) : k \in Uint64Keys, v \in {0, 9}}
    \cup {Pair(k, g_variant_new_uint32(v)) : k \in Uint32Keys, v \in {0, 1}}
    \cup {Pair(k, g_variant_new_string(<<"a">>)) : k \in UnknownKeys}
    \cup {Pair(k, g_variant_new_uint64(1)) : k \in UnknownKeys}

\* type strings of the GVariants a remote producer sends, and the outer keys
\* of its id-keyed ones
WireTypes == {"a{sv}", "(a{sv})", "{sa{sv}}", "a{ss}", "s"}
WireIds == {<<>>, <<"d">>}

\* a device with every field set
PopulatedDevice ==
    [id |-> <<"d">>, created |-> 86400, modified |-> 1, flags |-> 9,
     guids |-> <<<<"a">>, <<"b">>>>, name |-> <<"a">>, summary |-> <<"a">>,
     description |-> <<>>, vendor |-> <<"a">>, provider |-> <<"a">>,
     version |-> <<"a">>, version_lowest |-> <<"a">>,
     version_bootloader |-> <<"a">>, checksums |-> <<<<"b">>>>,
     flashes_left |-> 1]

(* ---------------------------- state machine --------------------------- *)

\* no call has returned anything yet
NoOut == [fn |-> "none"]

Init ==
    /\ dev = fwupd_device_new
    /\ nops = 0
    /\ guidLog = <<>>
    /\ csumLog = <<>>
    /\ data = NoData
    /\ out = NoOut

\* the process has not been ended by g_error
Running == out.fn # "abort"

\* a setter or adder: the values returned by earlier calls are dropped
Mutate(d) ==
    /\ Running
    /\ nops < MaxOps
    /\ nops' = nops + 1
    /\ dev' = d
    /\ data' = NoData
    /\ out' = NoOut

SetId == \E v \in StrVals :
    Mutate(fwupd_device_set_id(dev, v)) /\ UNCHANGED <<guidLog, csumLog>>

SetSummary == \E v \in StrVals :
    Mutate(fwupd_device_set_summary(dev, v)) /\ UNCHANGED <<guidLog, csumLog>>

SetName == \E v \in StrVals :
    Mutate(fwupd_device_set_name(dev, v)) /\ UNCHANGED <<guidLog, csumLog>>

SetVendor == \E v \in StrVals :
    Mutate(fwupd_device_set_vendor(dev, v)) /\ UNCHANGED <<guidLog, csumLog>>

SetDescription == \E v \in StrVals :
    Mutate(fwupd_device_set_description(dev, v))
    /\ UNCHANGED <<guidLog, csumLog>>

SetVersion == \E v \in StrVals :
    Mutate(fwupd_device_set_version(dev, v)) /\ UNCHANGED <<guidLog, csumLog>>

SetVersionLowest == \E v \in StrVals :
    Mutate(fwupd_device_set_version_lowest(dev, v))
    /\ UNCHANGED <<guidLog, csumLog>>

SetVersionBootloader == \E v \in StrVals :
    Mutate(fwupd_device_set_version_bootloader(dev, v))
    /\ UNCHANGED <<guidLog, csumLog>>

SetProvider == \E v \in StrVals :
    Mutate(fwupd_device_set_provider(dev, v)) /\ UNCHANGED <<guidLog, csumLog>>

SetFlashesLeft == \E v \in FlashesVals :
    Mutate(fwupd_device_set_flashes_left(dev, v))
    /\ UNCHANGED <<guidLog, csumLog>>

SetFlags == \E v \in FlagsVals :
    Mutate(fwupd_device_set_flags(dev, v)) /\ UNCHANGED <<guidLog, csumLog>>

AddFlag == \E f \in FlagVals :
    Mutate(fwupd_device_add_flag(dev, f)) /\ UNCHANGED <<guidLog, csumLog>>

RemoveFlag == \E f \in FlagVals :
    Mutate(fwupd_device_remove_flag(dev, f)) /\ UNCHANGED <<guidLog, csumLog>>

SetCreated == \E v \in TimeVals :
    Mutate(fwupd_device_set_created(dev, v)) /\ UNCHANGED <<guidLog, csumLog>>

SetModified == \E v \in TimeVals :
    Mutate(fwupd_device_set_modified(dev, v)) /\ UNCHANGED <<guidLog, csumLog>>

\* guidLog / csumLog: every value handed to the adder so far, in call order
AddGuid == \E g \in GuidVals :
    /\ Mutate(fwupd_device_add_guid(dev, g))
    /\ guidLog' = Append(guidLog, g)
    /\ UNCHANGED csumLog

AddChecksum == \E c \in ChecksumVals :
    /\ Mutate(fwupd_device_add_checksum(dev, c))
    /\ csumLog' = Append(csumLog, c)
    /\ UNCHANGED guidLog

FromKeyValue == \E p \in Pairs :
    /\ Mutate(fwupd_device_from_key_value(dev, p.key, p.value))
    /\ guidLog' = IF p.key = FWUPD_RESULT_KEY_GUID
                  THEN guidLog \o g_strsplit(g_variant_get_string(p.value))
                  ELSE guidLog
    /\ csumLog' = IF p.key = FWUPD_RESULT_KEY_DEVICE_CHECKSUM
                  THEN csumLog \o g_strsplit(g_variant_get_string(p.value))
                  ELSE csumLog

\* to_data returns a GVariant or NULL, or the process ends inside it
ToData == \E t \in TypeStrings :
    /\ Running
    /\ IF fwupd_device_to_data(dev, t) = Aborted
       THEN /\ data' = NoData
            /\ out' = [fn |-> "abort", type_string |-> t]
       ELSE /\ data' = fwupd_device_to_data(dev, t)
            /\ out' = [fn |-> "to_data", type_string |-> t]
    /\ UNCHANGED <<dev, nops, guidLog, csumLog>>

\* the GVariant in hand is decoded into a new device; dev is not touched
NewFromData ==
    /\ data # NoData
    /\ out.fn \in {"to_data", "wire"}
    /\ out' = [fn |-> "new_from_data", device |-> fwupd_device_new_from_data(data)]
    /\ UNCHANGED <<dev, nops, guidLog, csumLog, data>>

DeviceToString ==
    /\ Running
    /\ out' = [fn |-> "to_string", text |-> fwupd_device_to_string(dev)]
    /\ data' = NoData
    /\ UNCHANGED <<dev, nops, guidLog, csumLog>>

Next ==
    \/ SetId \/ SetSummary \/ SetName \/ SetVendor \/ SetDescription
    \/ SetVersion \/ SetVersionLowest \/ SetVersionBootloader \/ SetProvider
    \/ SetFlashesLeft \/ SetFlags \/ AddFlag \/ RemoveFlag
    \/ SetCreated \/ SetModified
    \/ AddGuid \/ AddChecksum \/ FromKeyValue
    \/ ToData \/ NewFromData \/ DeviceToString

\* the accessors, the serializer and the formatter on a new device
Spec == Init /\ [][Next]_vars

\* the same calls on a device that is new or has every field set
InitRecord ==
    /\ dev \in {fwupd_device_new, PopulatedDevice}
    /\ nops = 0
    /\ guidLog = dev.guids
    /\ csumLog = dev.checksums
    /\ data = NoData
    /\ out = NoOut

SpecRecord == InitRecord /\ [][Next]_vars

\* the deserializer on a GVariant received from a remote producer
InitData ==
    /\ dev = fwupd_device_new
    /\ nops = 0
    /\ guidLog = <<>>
    /\ csumLog = <<>>
    /\ \E t \in WireTypes, id \in WireIds, n \in 0..MaxPairs :
           \E m \in [1..n -> Pairs] :
               data = GVariant(t, IF t = "{sa{sv}}" THEN id ELSE NULL, m)
    /\ out = [fn |-> "wire"]

NextData == NewFromData

SpecData == InitData /\ [][NextData]_vars

(* ------------------------------- claims ------------------------------- *)

\* the members of the record, and those the serializer has a block for
Fields == DOMAIN fwupd_device_new
StringFields ==
    {"id", "name", "summary", "description", "vendor", "provider", "version",
     "version_lowest", "version_bootloader"}
SerializedFields == Fields \ {"id", "summary"}

\* no element of the list holds a comma
NoComma(list) ==
    \A i \in 1..Len(list) : \A j \in 1..Len(list[i]) : list[i][j] # ","

\* the lines of a text that carry one key
LinesOf(text, key) == {i \in 1..Len(text) : text[i].key = key}

\* new_from_data has just decoded what to_data (dev, "a{sv}") returned
RoundTripDone ==
    /\ out.fn = "new_from_data"
    /\ data = fwupd_device_to_data(dev, "a{sv}")

CommaFree == NoComma(dev.guids) /\ NoComma(dev.checksums)

StringsNonNull == \A f \in StringFields : dev[f] # NULL

\* C1 as stated: a record without commas in its list elements and with every
\* optional string non-null comes back from to_data / new_from_data equal in
\* every field.
C1_RoundTripEveryField ==
    (RoundTripDone /\ CommaFree /\ StringsNonNull) => out.device = dev

\* C1 amended: a record without commas in its list elements, neither list
\* being the single empty string, comes back equal in every field the
\* serializer carries, its optional strings null or not; id and summary are
\* not carried and are unset in the result, and every field that was unset
\* stays unset.
C1_RoundTripSerializedFields ==
    (/\ RoundTripDone
     /\ CommaFree
     /\ dev.guids # <<<<>>>>
     /\ dev.checksums # <<<<>>>>)
    => /\ out.device = [dev EXCEPT !.id = NULL, !.summary = NULL]
       /\ \A f \in Fields :
              dev[f] = fwupd_device_new[f] => out.device[f] = fwupd_device_new[f]

C1_Witness ==
    /\ RoundTripDone
    /\ CommaFree
    /\ StringsNonNull
    /\ Len(dev.guids) >= 2
    /\ Len(dev.checksums) >= 2
    /\ dev.flags > 0
    /\ out.device.guids = dev.guids
    /\ out.device.name = dev.name

\* the distinct values of a log, each at the place of its first occurrence
FirstSeen(log) ==
    LET keep == {i \in 1..Len(log) : \A j \in 1..(i - 1) : log[j] # log[i]}
        nth(k) == CHOOSE i \in keep : Cardinality({j \in keep : j < i}) = k - 1
    IN  [k \in 1..Cardinality(keep) |-> log[nth(k)]]

NoDuplicate(list) ==
    \A i, j \in 1..Len(list) : i # j => list[i] # list[j]

\* C2: after any sequence of add_guid / add_checksum calls and deserialized
\* Guid / checksum keys, each list holds every distinct added value exactly
\* once, in first-seen order.
C2_DedupFirstSeenOrder ==
    /\ dev.guids = FirstSeen(guidLog)
    /\ dev.checksums = FirstSeen(csumLog)
    /\ NoDuplicate(dev.guids)
    /\ NoDuplicate(dev.checksums)

C2_Witness ==
    /\ Len(guidLog) = 3
    /\ Len(dev.guids) = 2
    /\ guidLog[3] = guidLog[1]
    /\ Len(csumLog) = 0

\* the fields in which a device differs from a new one
DiffFields(d) == {f \in Fields : d[f] # fwupd_device_new[f]}

\* the key-name constant of each field that has one
KeyOf ==
    [id |-> FWUPD_RESULT_KEY_DEVICE_ID,
     guids |-> FWUPD_RESULT_KEY_GUID,
     name |-> FWUPD_RESULT_KEY_DEVICE_NAME,
     vendor |-> FWUPD_RESULT_KEY_DEVICE_VENDOR,
     flags |-> FWUPD_RESULT_KEY_DEVICE_FLAGS,
     created |-> FWUPD_RESULT_KEY_DEVICE_CREATED,
     modified |-> FWUPD_RESULT_KEY_DEVICE_MODIFIED,
     description |-> FWUPD_RESULT_KEY_DEVICE_DESCRIPTION,
     checksums |-> FWUPD_RESULT_KEY_DEVICE_CHECKSUM,
     provider |-> FWUPD_RESULT_KEY_DEVICE_PLUGIN,
     version |-> FWUPD_RESULT_KEY_DEVICE_VERSION,
     version_lowest |-> FWUPD_RESULT_KEY_DEVICE_VERSION_LOWEST,
     version_bootloader |-> FWUPD_RESULT_KEY_DEVICE_VERSION_BOOTLOADER,
     flashes_left |-> FWUPD_RESULT_KEY_DEVICE_FLASHES_LEFT]

Serialized == out.fn = "to_data" /\ data # NoData

\* what the serializer adds to an empty builder for the record in hand; it
\* is the mapping of every GVariant to_data returns
Builder == fwupd_device_to_variant_builder(dev, <<>>)

BuilderReturned == Serialized => data.kvs = Builder

\* C3 as stated: a new device serializes to the empty sequence, and with
\* exactly one field set, whichever it is, to exactly one pair, under that
\* field's key.
C3_OnePairPerField ==
    /\ BuilderReturned
    /\ dev = fwupd_device_new => Builder = <<>>
    /\ \A f \in Fields :
           DiffFields(dev) = {f} =>
               /\ Len(Builder) = 1
               /\ f \in DOMAIN KeyOf => Builder[1].key = KeyOf[f]

\* C3 amended: a new device serializes to the empty sequence; with exactly
\* one field other than id and summary set, to exactly one pair under that
\* field's key; with only id or only summary set, to the empty sequence.
C3_OnePairPerSerializedField ==
    /\ BuilderReturned
    /\ dev = fwupd_device_new => Builder = <<>>
    /\ \A f \in SerializedFields :
           DiffFields(dev) = {f} =>
               /\ Len(Builder) = 1
               /\ Builder[1].key = KeyOf[f]
    /\ \A f \in {"id", "summary"} :
           DiffFields(dev) = {f} => Builder = <<>>

C3_Witness ==
    /\ Serialized
    /\ DiffFields(dev) = {"version_lowest"}
    /\ Len(data.kvs) = 1
    /\ data.kvs[1].key = FWUPD_RESULT_KEY_DEVICE_VERSION_LOWEST

Decoded == out.fn = "new_from_data"

\* C4: the same entries in the bare-mapping shape and in the 1-tuple shape
\* decode to records equal in every field, both with id unset.
C4_EnvelopeEquivalence ==
    (Decoded /\ data.type \in {"a{sv}", "(a{sv})"}) =>
        /\ out.device =
               fwupd_device_new_from_data(GVariant("a{sv}", NULL, data.kvs))
        /\ out.device =
               fwupd_device_new_from_data(GVariant("(a{sv})", NULL, data.kvs))
        /\ out.device.id = NULL

C4_Witness ==
    /\ Decoded
    /\ data.type = "(a{sv})"
    /\ Len(data.kvs) = 2
    /\ Cardinality(DiffFields(out.device)) = 2

\* C5: the id-keyed shape decodes to a record whose id is the outer key and
\* whose other fields are those of the inner mapping decoded in the
\* bare-mapping shape; no key of the inner mapping changes the id.
C5_IdKeyedEnvelope ==
    (Decoded /\ data.type = "{sa{sv}}") =>
        /\ out.device.id = data.id
        /\ [out.device EXCEPT !.id = NULL] =
               fwupd_device_new_from_data(GVariant("a{sv}", NULL, data.kvs))

C5_Witness ==
    /\ Decoded
    /\ data.type = "{sa{sv}}"
    /\ data.id = <<"d">>
    /\ Len(data.kvs) = 2
    /\ data.kvs[1].key = FWUPD_RESULT_KEY_DEVICE_NAME
    /\ data.kvs[2].key = FWUPD_RESULT_KEY_DEVICE_ID
    /\ out.device.id = <<"d">>
    /\ out.device.name = <<"a">>

\* the entries of a mapping under a recognized key, in order
RECURSIVE RecognizedOnly(_)
RecognizedOnly(kvs) ==
    IF kvs = <<>> THEN <<>>
    ELSE IF Head(kvs).key \in RecognizedKeys
    THEN <<Head(kvs)>> \o RecognizedOnly(Tail(kvs))
    ELSE RecognizedOnly(Tail(kvs))

\* C6: a key that is none of the recognized constants changes no field and
\* raises no error: a mapping decodes to what its recognized entries alone
\* decode to, wherever the unrecognized ones stand.
C6_UnknownKeyIgnored ==
    (Decoded /\ data.type \in {"a{sv}", "(a{sv})", "{sa{sv}}"}) =>
        /\ out.device # NoDevice
        /\ out.device =
               fwupd_device_new_from_data(
                   GVariant(data.type, data.id, RecognizedOnly(data.kvs)))
        /\ \A k \in UnknownKeys, v \in {g_variant_new_string(<<"a">>),
                                        g_variant_new_uint64(1)} :
               fwupd_device_from_key_value(out.device, k, v) = out.device

C6_Witness ==
    /\ Decoded
    /\ data.type = "a{sv}"
    /\ Len(data.kvs) = 2
    /\ data.kvs[1].key \in UnknownKeys
    /\ data.kvs[2].key = FWUPD_RESULT_KEY_DEVICE_VERSION
    /\ DiffFields(out.device) = {"version"}

\* C7: new_from_data returns NULL exactly for a type string other than
\* "(a{sv})", "a{sv}" and "{sa{sv}}"; an empty mapping still gives a record.
C7_UnsupportedEnvelope ==
    Decoded =>
        (out.device = NoDevice <=>
             data.type \notin {"(a{sv})", "a{sv}", "{sa{sv}}"})

C7_Witness ==
    /\ Decoded
    /\ data.type = "a{ss}"
    /\ Len(data.kvs) = 1
    /\ out.device = NoDevice

Formatted == out.fn = "to_string"

\* C8 as stated: with flags = 0 the text has no flags line.
C8_NoFlagsLineForZero ==
    (Formatted /\ dev.flags = 0) =>
        LinesOf(out.text, FWUPD_RESULT_KEY_DEVICE_FLAGS) = {}

\* C8 amended: with flags = 0 the text has exactly one flags line, whose
\* value is the name looked up for flag value 0.
C8_FlagsLineNamesZero ==
    (Formatted /\ dev.flags = 0) =>
        /\ Cardinality(LinesOf(out.text, FWUPD_RESULT_KEY_DEVICE_FLAGS)) = 1
        /\ \A i \in LinesOf(out.text, FWUPD_RESULT_KEY_DEVICE_FLAGS) :
               out.text[i].value = fwupd_device_flag_to_string(0)

C8_Witness ==
    /\ Formatted
    /\ dev.flags = 0
    /\ dev.id # NULL
    /\ Cardinality(LinesOf(out.text, FWUPD_RESULT_KEY_DEVICE_FLAGS)) = 1

\* C9: the text has a flashes-left line if and only if flashes_left = 1.
C9_FlashesLeftCutoff ==
    Formatted =>
        /\ (LinesOf(out.text, FWUPD_RESULT_KEY_DEVICE_FLASHES_LEFT) # {}
                <=> dev.flashes_left = 1)
        /\ Cardinality(LinesOf(out.text, FWUPD_RESULT_KEY_DEVICE_FLASHES_LEFT))
               <= 1

C9_Witness ==
    /\ Formatted
    /\ dev.flashes_left = 1
    /\ LinesOf(out.text, FWUPD_RESULT_KEY_DEVICE_FLASHES_LEFT) # {}

\* the serializer's keys in their fixed order, by field
EmissionOrder ==
    <<"guids", "name", "vendor", "flags", "created", "modified", "description",
      "checksums", "provider", "version", "version_lowest",
      "version_bootloader", "flashes_left">>

\* the elements of a non-empty list with a comma between neighbours
RECURSIVE CommaJoined(_)
CommaJoined(list) ==
    IF Len(list) = 1 THEN list[1]
    ELSE list[1] \o <<",">> \o CommaJoined(Tail(list))

\* whether the emission rule counts a field as set, and the value it gives
IsSet(d, f) ==
    IF f \in {"guids", "checksums"} THEN d[f] # <<>>
    ELSE IF f \in StringFields THEN d[f] # NULL
    ELSE d[f] # 0

WireValue(d, f) ==
    IF f \in {"guids", "checksums"} THEN [t |-> "s", v |-> CommaJoined(d[f])]
    ELSE IF f \in StringFields THEN [t |-> "s", v |-> d[f]]
    ELSE IF f = "flashes_left" THEN [t |-> "u", v |-> d[f]]
    ELSE [t |-> "t", v |-> d[f]]

\* the pairs the emission rule asks for, over the fields from position i on
RECURSIVE EmittedFrom(_, _)
EmittedFrom(d, i) ==
    IF i > Len(EmissionOrder) THEN <<>>
    ELSE (IF IsSet(d, EmissionOrder[i])
          THEN <<[key |-> KeyOf[EmissionOrder[i]],
                  value |-> WireValue(d, EmissionOrder[i])]>>
          ELSE <<>>)
         \o EmittedFrom(d, i + 1)

\* C10: the serializer emits a pair for exactly the set fields (list
\* non-empty, string non-null, number non-zero), comma-joined or raw, in the
\* fixed key order, each key at most once.
C10_EmissionRuleAndOrder ==
    /\ Builder = EmittedFrom(dev, 1)
    /\ Serialized => data.kvs = EmittedFrom(dev, 1)

C10_Witness ==
    /\ Serialized
    /\ Len(data.kvs) >= 12
    /\ dev.description = <<>>
    /\ Len(dev.guids) >= 2
    /\ dev.created = 0


\* the formatter's fields in their fixed order
FormatOrder ==
    <<"guids", "id", "description", "provider", "flags", "checksums", "vendor",
      "version", "version_lowest", "version_bootloader", "flashes_left",
      "created", "modified">>

\* the number of lines a field of the formatter's order gets: one per list
\* element, one for a non-null string, one for a non-zero timestamp, one
\* for flashes_left = 1, and always one for flags
LineCount(d, f) ==
    IF f \in {"guids", "checksums"} THEN Len(d[f])
    ELSE IF f = "flags" THEN 1
    ELSE IF f = "flashes_left" THEN (IF d[f] = 1 THEN 1 ELSE 0)
    ELSE IF f \in StringFields THEN (IF d[f] # NULL THEN 1 ELSE 0)
    ELSE (IF d[f] # 0 THEN 1 ELSE 0)

\* the key of each line, over the fields from position i on
RECURSIVE LineKeysFrom(_, _)
LineKeysFrom(d, i) ==
    IF i > Len(FormatOrder) THEN <<>>
    ELSE [k \in 1..LineCount(d, FormatOrder[i]) |-> KeyOf[FormatOrder[i]]]
         \o LineKeysFrom(d, i + 1)

\* the keys of the lines of a text, in order
KeysOf(text) == [i \in 1..Len(text) |-> text[i].key]

\* the lines are in the fixed order, and those of the lists in list order
LinesInOrder ==
    /\ KeysOf(out.text) = LineKeysFrom(dev, 1)
    /\ \A i \in 1..Len(dev.guids) : out.text[i].value = dev.guids[i]
    /\ LET first == CHOOSE i \in 1..(Len(out.text) + 1) :
                        /\ \A j \in 1..(i - 1) :
                               out.text[j].key # FWUPD_RESULT_KEY_DEVICE_CHECKSUM
                        /\ i <= Len(out.text) =>
                               out.text[i].key = FWUPD_RESULT_KEY_DEVICE_CHECKSUM
       IN  \A j \in 1..Len(dev.checksums) :
               out.text[first + j - 1].value =
                   fwupd_checksum_format_for_display(dev.checksums[j])

\* the lines a record would have with one line for each of its set fields,
\* name and summary among them
LinesForSetFields(d) ==
    Len(LineKeysFrom(d, 1))
    + (IF d.name # NULL THEN 1 ELSE 0) + (IF d.summary # NULL THEN 1 ELSE 0)

\* C11 as stated: the text has its lines in the fixed order, none for a null
\* string or a zero timestamp, and a record with every string set has a
\* line for each set field.
C11_LineForEverySetField ==
    Formatted =>
        /\ LinesInOrder
        /\ StringsNonNull => Len(out.text) = LinesForSetFields(dev)

\* C11 amended: the text has its lines in the fixed order, none for a null
\* string or a zero timestamp; name and summary never get a line, so a
\* record with every string set has a line for each set field but those two.
C11_LineForEveryFormattedField ==
    Formatted =>
        /\ LinesInOrder
        /\ LinesOf(out.text, FWUPD_RESULT_KEY_DEVICE_NAME) = {}
        /\ StringsNonNull => Len(out.text) = LinesForSetFields(dev) - 2

C11_Witness ==
    /\ Formatted
    /\ StringsNonNull
    /\ Len(dev.guids) >= 2
    /\ Len(dev.checksums) >= 2
    /\ dev.created # 0
    /\ dev.modified = 0
    /\ Len(out.text) = 14


\* ---- C12: flag expansion ----

\* the positions of the set bits of a bitmask, ascending from position i
RECURSIVE SetBits(_, _)
SetBits(flags, i) ==
    IF flags = 0 THEN <<>>
    ELSE (IF flags % 2 = 1 THEN <<i>> ELSE <<>>) \o SetBits(flags \div 2, i + 1)

\* the names joined by "|", a separator between two names only
RECURSIVE BarJoined(_)
BarJoined(names) ==
    IF Len(names) = 0 THEN <<>>
    ELSE IF Len(names) = 1 THEN names[1]
    ELSE names[1] \o <<"|">> \o BarJoined(Tail(names))

BitNames(flags) ==
    LET bits == SetBits(flags, 0)
    IN  [k \in 1..Len(bits) |-> fwupd_device_flag_to_string(2 ^ bits[k])]

Bars(value) == {k \in 1..Len(value) : value[k] = "|"}

\* C12: the flags line of the text names exactly the set bits of the stored
\* bitmask, one name per set bit, in ascending bit position below 64, joined
\* by "|" with no leading and no trailing separator; a bitmask with no bit
\* set is rendered as the name of flag value 0
C12_FlagsLineNamesSetBits ==
    Formatted =>
        LET lines == LinesOf(out.text, FWUPD_RESULT_KEY_DEVICE_FLAGS)
            bits == SetBits(dev.flags, 0)
        IN  /\ Cardinality(lines) = 1
            /\ \A i \in lines :
                   LET value == out.text[i].value
                   IN  /\ \A k \in 1..Len(bits) : bits[k] < 64
                       /\ dev.flags = 0 => value = fwupd_device_flag_to_string(0)
                       /\ dev.flags # 0 =>
                              /\ value = BarJoined(BitNames(dev.flags))
                              /\ Cardinality(Bars(value)) = Len(bits) - 1
                              /\ Head(value) # "|"
                              /\ value[Len(value)] # "|"

\* a formatted record with three bits set, two of them not adjacent
C12_Witness ==
    /\ Formatted
    /\ Len(SetBits(dev.flags, 0)) >= 3
    /\ \E i \in LinesOf(out.text, FWUPD_RESULT_KEY_DEVICE_FLAGS) :
           Cardinality(Bars(out.text[i].value)) = 2

\* ---- C13: default GUID stability ----

\* the default is unset exactly on an empty list, and otherwise it is the
\* first GUID ever handed to the adder
DefaultIsFirst(d, log) ==
    /\ fwupd_device_get_guid_default(d) = NULL <=> d.guids = <<>>
    /\ d.guids = <<>> <=> log = <<>>
    /\ log # <<>> => fwupd_device_get_guid_default(d) = Head(log)

\* C13: fwupd_device_get_guid_default returns NULL exactly when the guids
\* list is empty and otherwise the first-inserted GUID; once the list is
\* non-empty no add_guid call, setter call, deserialized key, serialization
\* or formatting changes the returned default
C13_DefaultGuidStable ==
    [][/\ DefaultIsFirst(dev, guidLog)
       /\ DefaultIsFirst(dev', guidLog')
       /\ dev.guids # <<>> =>
              fwupd_device_get_guid_default(dev') =
              fwupd_device_get_guid_default(dev)]_vars

\* three GUIDs were handed over, one of them a repeat or a later arrival, and
\* the record was formatted afterwards with the first one still the default
C13_Witness ==
    /\ Len(guidLog) >= 3
    /\ Len(dev.guids) >= 2
    /\ fwupd_device_get_guid_default(dev) = guidLog[1]
    /\ guidLog[Len(guidLog)] # guidLog[1]
    /\ out.fn = "to_string"

\* ---- C14: flag operations ----

\* the flags of one bit, bit positions 0 to 3
SingleBits == {2 ^ i : i \in 0..3}

\* bit f of a bitmask, f a flag of one bit
BitSet(flags, f) == (flags \div f) % 2 = 1

\* d2 is d1 but for bit f of the flags
OnlyBitDiffers(d1, d2, f) ==
    /\ \A g \in SingleBits \ {f} :
           fwupd_device_has_flag(d2, g) = fwupd_device_has_flag(d1, g)
    /\ \A g \in SingleBits \ {f} : BitSet(d2.flags, g) = BitSet(d1.flags, g)
    /\ \A fld \in Fields \ {"flags"} : d2[fld] = d1[fld]

\* C14: on every record reached by add_flag / remove_flag / set_flags calls,
\* has_flag(f) of a one-bit flag f is TRUE iff bit f of the stored bitmask is
\* set; add_flag(f) sets bit f, remove_flag(f) clears it and set_flags(v)
\* makes it the bit of v, so the bit is what the last call touching it made
\* it; add_flag(f) and remove_flag(f) leave every other bit and every other
\* field as they were; has_flag(0) is FALSE
C14_HasFlagIsStoredBit ==
    /\ ~fwupd_device_has_flag(dev, 0)
    /\ \A f \in SingleBits :
        /\ fwupd_device_has_flag(dev, f) <=> BitSet(dev.flags, f)
        /\ LET added == fwupd_device_add_flag(dev, f)
               removed == fwupd_device_remove_flag(dev, f)
           IN  /\ fwupd_device_has_flag(added, f)
               /\ OnlyBitDiffers(dev, added, f)
               /\ ~fwupd_device_has_flag(removed, f)
               /\ OnlyBitDiffers(dev, removed, f)
        /\ \A v \in FlagsVals :
               fwupd_device_has_flag(fwupd_device_set_flags(dev, v), f)
                   <=> BitSet(v, f)

\* two flag calls were made on a new record: bits 1 and 3 are set, bits 0
\* and 2 are not
C14_Witness ==
    /\ nops = 2
    /\ dev.flags = 10
    /\ fwupd_device_has_flag(dev, 2)
    /\ fwupd_device_has_flag(dev, 8)
    /\ ~fwupd_device_has_flag(dev, 1)
    /\ ~fwupd_device_has_flag(dev, 4)

\* ---- C15: producer/consumer shape agreement ----

\* the type strings to_data builds a value for
SupportedTypes == {"a{sv}", "(a{sv})"}

\* a step in which to_data was called
ToDataCalled == out' # out /\ out'.fn \in {"to_data", "abort"}

\* C15: a call of fwupd_device_to_data returns; what it returns is a value
\* for the type strings "a{sv}" and "(a{sv})" and NULL for every other one,
\* "{sa{sv}}" included; fwupd_device_new_from_data gives a record for every
\* value returned; the record the call was made on is as it was
C15_ToDataShapesAccepted ==
    [][ToDataCalled =>
           /\ out'.fn = "to_data"
           /\ data' # NoData <=> out'.type_string \in SupportedTypes
           /\ data' # NoData => fwupd_device_new_from_data(data') # NoDevice
           /\ dev' = dev]_vars

====
